---- MODULE Spec2Model ----
(***************************************************************************)
(* Model of src/main.py: BookScraper.  One run() coroutine discovers the   *)
(* page count, spawns one scrape_page task per page under an asyncio       *)
(* semaphore, gathers them and closes the browser.  Every await of the     *)
(* source is a step boundary; code between two awaits is one atomic step   *)
(* (single-threaded event loop).                                           *)
(***************************************************************************)
EXTENDS Integers, Sequences, FiniteSets, TLC

\* ---- bounds of the model -------------------------------------------------
MaxPages == 2        \* largest discovered page count whose workers are explored
MaxConc == 2         \* largest max_concurrent explored
MaxRecs == 2         \* largest number of records one page yields

\* ---- program constants ---------------------------------------------------
FALLBACK_PAGES == 50
RETRIES == 3
NOT_FOUND == 404

VARIABLES
    invocation,      \* which run of the script this is (1, 2)
    max_concurrent,  \* self.max_concurrent
    semaphore,       \* free permits of self.semaphore
    file,            \* rows of self.output_file, in file order
    runpc,           \* position of run()
    runError,        \* what made run() raise ("none" while it has not)
    browser,         \* "none", "open" (launched), "closed"
    discOutcome,     \* how the bootstrap fetch of get_total_pages ended
    text,            \* inner_text('.current') read by get_total_pages
    total_pages,     \* value returned by get_total_pages (-1 before)
    worker,          \* page_num -> state of its scrape_page task
    requested        \* page_nums whose url page.goto has been called with

vars == <<invocation, max_concurrent, semaphore, file, runpc, runError,
          browser, discOutcome, text, total_pages, worker, requested>>

\* ---- rows of the output file ---------------------------------------------
\* A data row is <<page_num, index in the page's extraction order>>.
HeaderRow == <<0, 0>>

books_of(p, n) == [i \in 1..n |-> <<p, i>>]

\* ---- text helpers: decimal digits as characters --------------------------
DigitChars == <<"0", "1", "2", "3", "4", "5", "6", "7", "8", "9">>

IsDigit(c) == \E d \in 1..10 : DigitChars[d] = c

DigitVal(c) == (CHOOSE d \in 1..10 : DigitChars[d] = c) - 1

RECURSIVE Digits(_)
Digits(n) == IF n < 10 THEN <<DigitChars[n + 1]>>
             ELSE Digits(n \div 10) \o <<DigitChars[(n % 10) + 1]>>

RECURSIVE int(_)
int(s) == IF Len(s) = 0 THEN 0
          ELSE 10 * int(SubSeq(s, 1, Len(s) - 1)) + DigitVal(s[Len(s)])

PagePrefix == <<"P", "a", "g", "e", " ">>
OfSep == <<" ", "o", "f", " ">>

\* What the site renders in '.current' for page cur of total.
PageText(cur, total) == PagePrefix \o Digits(cur) \o OfSep \o Digits(total)

\* ---- re.search(r'Page \d+ of (\d+)', text)  (line 35) --------------------
HasAt(s, i, lit) ==
    /\ i + Len(lit) - 1 <= Len(s)
    /\ \A j \in 1..Len(lit) : s[i + j - 1] = lit[j]

\* Length of the longest run of digits of s that starts at index i (greedy \d+).
DigitRun(s, i) ==
    CHOOSE n \in 0..(Len(s) - i + 1) :
        /\ \A j \in i..(i + n - 1) : IsDigit(s[j])
        /\ (i + n > Len(s) \/ ~IsDigit(s[i + n]))

\* The pattern matches with its first character at index i.
MatchAt(s, i) ==
    /\ HasAt(s, i, PagePrefix)
    /\ DigitRun(s, i + 5) >= 1
    /\ HasAt(s, i + 5 + DigitRun(s, i + 5), OfSep)
    /\ DigitRun(s, i + 9 + DigitRun(s, i + 5)) >= 1

\* match.group(1) of the leftmost match.
Group1At(s, i) ==
    LET g == i + 9 + DigitRun(s, i + 5)
    IN  SubSeq(s, g, g + DigitRun(s, g) - 1)

NoMatch == <<"None">>

re_search(s) ==
    IF \E i \in 1..Len(s) : MatchAt(s, i)
    THEN Group1At(s, CHOOSE i \in 1..Len(s) :
                        MatchAt(s, i) /\ \A j \in 1..(i - 1) : ~MatchAt(s, j))
    ELSE NoMatch

\* ---- get_total_pages (lines 29-40) ---------------------------------------
\* outcome: which await of the try block raised, or "text" when all three
\* returned and inner_text gave t.
DiscOutcomes == {"goto_error", "selector_timeout", "inner_text_error", "text"}

get_total_pages_fallback_1(outcome, t) ==
    IF outcome = "text" /\ re_search(t) # NoMatch
    THEN int(re_search(t))
    ELSE 1

get_total_pages(outcome, t) ==
    IF outcome = "text" /\ re_search(t) # NoMatch
    THEN int(re_search(t))
    ELSE FALLBACK_PAGES

\* Indicator texts the bootstrap page may show.
Texts ==
    {PageText(1, t) : t \in 0..MaxPages}
    \cup { PageText(3, 27),
           PageText(10, 50),
           <<>>,
           <<"P", "a", "g", "e", " ", "o", "f", " ", "2">>,
           <<"p", "a", "g", "e", " ", "1", " ", "o", "f", " ", "2">>,
           <<"P", "a", "g", "e", " ", "1", " ", "o", "f", " ">>,
           <<"P", "a", "g", "e", " ", "1", " ", "o", "f", " ", "x">>,
           <<"P", "a", "g", "e", " ", "1", "o", "f", " ", "2">>,
           <<"x", "P", "a", "g", "e", " ", "2", " ", "o", "f", " ", "0", "1", "x">>,
           <<"1", " ", "o", "f", " ", "2">> }

\* ---- asyncio.Semaphore (lines 21, 44) ------------------------------------
locked_never(sem) == FALSE

locked(sem) == sem = 0

\* ---- csv file operations (lines 25-27, 95-97) ----------------------------
writeheader(f) == f \o <<HeaderRow>>

open_w_keeping(f) == f

open_w(f) == <<>>

open_a_truncating(f) == <<>>

open_a(f) == f

writerows_with_header(f, rows) == f \o <<HeaderRow>> \o rows

writerows_first(f, rows) == IF rows = <<>> THEN f ELSE f \o <<rows[1]>>

writerows_reversed(f, rows) ==
    f \o [i \in 1..Len(rows) |-> rows[Len(rows) + 1 - i]]

writerows(f, rows) == f \o rows

\* save_data (lines 89-99).  write_ok = FALSE: the open or the write raised
\* after k rows reached the file; the exception is caught and logged.
save_data(f, books, write_ok, k) ==
    IF books = <<>> THEN f
    ELSE IF write_ok THEN writerows(open_a(f), books)
    ELSE writerows(open_a(f), SubSeq(books, 1, k))

\* ---- scrape_page helpers -------------------------------------------------
Statuses == {200, NOT_FOUND, 500}

is_not_found_never(status) == FALSE

is_not_found(status) == status = NOT_FOUND

\* for attempt in range(3)
in_range_inclusive(attempt) == attempt <= RETRIES

in_range(attempt) == attempt < RETRIES

NewTask ==
    [pc |-> "acquire", attempt |-> 0, attempts |-> 0, fails |-> 0,
     sleeps |-> 0, got404 |-> FALSE, cnt |-> 0, saved |-> "none",
     retval |-> "none", logged_failed |-> FALSE, page_open |-> FALSE]

Pages == DOMAIN worker

\* Holds a permit: inside `async with self.semaphore`.
ActivePcs == {"new_page", "goto", "wait_for_selector", "evaluate", "sleep", "close"}

Active(p) == worker[p].pc \in ActivePcs

\* Terminal: the coroutine has returned, raised or been cancelled.
Terminal(p) == worker[p].pc \in {"returned", "raised", "cancelled"}

\* asyncio.gather without return_exceptions (line 117)
gather_any_returned(w) == \E p \in DOMAIN w : w[p].pc = "returned"

gather_all_returned(w) == \A p \in DOMAIN w : w[p].pc = "returned"

gather_raises(w) == \E p \in DOMAIN w : w[p].pc = "raised"

\* ---- initial state: after BookScraper(...) (lines 17-27) -----------------
Init ==
    /\ invocation = 1
    /\ max_concurrent \in 1..MaxConc
    /\ semaphore = max_concurrent
    /\ file = writeheader(open_w(<<>>))
    /\ runpc = "launch"
    /\ runError = "none"
    /\ browser = "none"
    /\ discOutcome = "none"
    /\ text = <<>>
    /\ total_pages = -1
    /\ worker = <<>>
    /\ requested = {}

\* ---- run() (lines 101-120) -----------------------------------------------
\* run() leaves `async with async_playwright()` (102) by an exception: the
\* driver is stopped, which ends a browser it has launched.
playwright_exit(b) == IF b = "open" THEN "closed" ELSE b

\* async_playwright(), chromium.launch, new_context, new_page (102-107)
Launch ==
    /\ runpc = "launch"
    /\ \/ runpc' = "get_total_pages" /\ runError' = runError /\ browser' = "open"
       \/ /\ runpc' = "failed" /\ runError' = "startup"
          /\ \E launched \in {"none", "open"} : browser' = playwright_exit(launched)
    /\ UNCHANGED <<invocation, max_concurrent, semaphore, file, discOutcome, text,
                   total_pages, worker, requested>>

\* total_pages = await self.get_total_pages(page_one) (108)
GetTotalPages ==
    /\ runpc = "get_total_pages"
    /\ \E o \in DiscOutcomes, t \in Texts :
          /\ (o # "text") => t = <<>>
          /\ discOutcome' = o
          /\ text' = t
          /\ total_pages' = get_total_pages(o, t)
    /\ runpc' = "close_page_one"
    /\ UNCHANGED <<invocation, max_concurrent, semaphore, file, runError, browser,
                   worker, requested>>

\* await page_one.close() (109)
ClosePageOne ==
    /\ runpc = "close_page_one"
    /\ \/ runpc' = "spawn" /\ runError' = runError /\ browser' = browser
       \/ /\ runpc' = "failed" /\ runError' = "page_one_close"
          /\ browser' = playwright_exit(browser)
    /\ UNCHANGED <<invocation, max_concurrent, semaphore, file, discOutcome, text,
                   total_pages, worker, requested>>

page_range_from_zero(n) == 0..(n - 1)

\* range(1, total_pages + 1) (114)
page_range(n) == 1..n

\* tasks = [...]; asyncio.gather(*tasks) starts them (111-117).  Page counts
\* above MaxPages are not explored further.
Spawn ==
    /\ runpc = "spawn"
    /\ total_pages <= MaxPages
    /\ worker' = [p \in page_range(total_pages) |-> NewTask]
    /\ runpc' = "gather"
    /\ UNCHANGED <<invocation, max_concurrent, semaphore, file, runError, browser,
                   discOutcome, text, total_pages, requested>>

\* gather returns when every task has returned (117)
GatherReturn ==
    /\ runpc = "gather"
    /\ gather_all_returned(worker)
    /\ runpc' = "browser_close"
    /\ UNCHANGED <<invocation, max_concurrent, semaphore, file, runError, browser,
                   discOutcome, text, total_pages, worker, requested>>

\* gather re-raises the first exception of a task into run() (117); the
\* other tasks are left running and `await browser.close()` is skipped.
GatherRaise ==
    /\ runpc = "gather"
    /\ gather_raises(worker)
    /\ runpc' = "failed"
    /\ runError' = "worker"
    /\ browser' = playwright_exit(browser)
    /\ UNCHANGED <<invocation, max_concurrent, semaphore, file, discOutcome, text,
                   total_pages, worker, requested>>

\* await browser.close(); logger.info("Scraping completed.") (119-120)
BrowserClose ==
    /\ runpc = "browser_close"
    /\ \/ runpc' = "completed" /\ runError' = runError /\ browser' = "closed"
       \/ /\ runpc' = "failed" /\ runError' = "browser_close"
          /\ browser' = playwright_exit(browser)
    /\ UNCHANGED <<invocation, max_concurrent, semaphore, file, discOutcome, text,
                   total_pages, worker, requested>>

\* ---- scrape_page(context, p) (lines 42-88) -------------------------------
acquire(sem) == sem - 1

release_lost(sem) == sem

release(sem) == sem + 1

\* except Exception: logger.error(...); await asyncio.sleep(2) (80-82)
Backoff(r) == [r EXCEPT !.pc = "sleep", !.fails = @ + 1, !.sleeps = @ + 1]

\* The retry loop is over for good: its loop variable and the counters of
\* its attempts are dropped.
Finish(r, pc) ==
    [r EXCEPT !.pc = pc, !.attempt = 0, !.attempts = 0, !.fails = 0, !.sleeps = 0]

OtherVarsOfTask ==
    UNCHANGED <<invocation, max_concurrent, runpc, runError, browser,
                discOutcome, text, total_pages>>

\* async with self.semaphore: (44)
Acquire(p) ==
    /\ worker[p].pc = "acquire"
    /\ ~locked(semaphore)
    /\ semaphore' = acquire(semaphore)
    /\ worker' = [worker EXCEPT ![p].pc = "new_page"]
    /\ UNCHANGED <<file, requested>>
    /\ OtherVarsOfTask

\* page = await context.new_page() (45): outside the try, so an exception
\* leaves scrape_page through the `async with`, which releases the permit.
NewPage(p) ==
    /\ worker[p].pc = "new_page"
    /\ \/ /\ worker' = [worker EXCEPT ![p].pc = "goto", ![p].page_open = TRUE]
          /\ UNCHANGED semaphore
       \/ /\ worker' = [worker EXCEPT ![p] = Finish(@, "raised")]
          /\ semaphore' = release(semaphore)
    /\ UNCHANGED <<file, requested>>
    /\ OtherVarsOfTask

\* response = await page.goto(url, timeout=30000); status check (52-56).
\* Second disjunct: goto raised (timeout, navigation error) or gave no
\* response object, so that response.status raised.
Goto(p) ==
    /\ worker[p].pc = "goto"
    /\ LET r == [worker[p] EXCEPT !.attempts = @ + 1]
       IN  \/ /\ \E status \in Statuses :
                   LET r2 == [r EXCEPT !.got404 = @ \/ (status = NOT_FOUND)]
                   IN  IF is_not_found(status)
                       THEN worker' = [worker EXCEPT ![p] =
                               [r2 EXCEPT !.retval = "empty", !.pc = "close"]]
                       ELSE worker' = [worker EXCEPT ![p] =
                               [r2 EXCEPT !.pc = "wait_for_selector"]]
           \/ /\ worker' = [worker EXCEPT ![p] = Backoff(r)]
    /\ requested' = requested \cup {p}
    /\ UNCHANGED <<semaphore, file>>
    /\ OtherVarsOfTask

\* await page.wait_for_selector('.product_pod', timeout=5000) (58)
WaitForSelector(p) ==
    /\ worker[p].pc = "wait_for_selector"
    /\ \/ worker' = [worker EXCEPT ![p].pc = "evaluate"]
       \/ worker' = [worker EXCEPT ![p] = Backoff(worker[p])]
    /\ UNCHANGED <<semaphore, file, requested>>
    /\ OtherVarsOfTask

\* A failed write that left save_data as an exception would be caught by
\* scrape_page's own except and retried.
after_save_uncaught(r, n, write_ok) ==
    IF n = 0 \/ write_ok
    THEN [Finish(r, "close") EXCEPT !.cnt = n,
                                    !.saved = IF n = 0 THEN "noop" ELSE "ok",
                                    !.retval = "books"]
    ELSE Backoff(r)

\* save_data has returned (its except at 98-99 logs a failed write and
\* returns); `return books` (78) follows whatever the write did.
after_save(r, n, write_ok) ==
    [Finish(r, "close") EXCEPT
         !.cnt = n,
         !.saved = IF n = 0 THEN "noop" ELSE IF write_ok THEN "ok" ELSE "fail",
         !.retval = "books"]

\* books = await page.evaluate(...); self.save_data(books); return books
\* (60-78).  save_data has no await: it runs in the same step.  Nothing
\* after `return books` reads the loop variable or the counters of the
\* attempts, so they are dropped with it.
Evaluate(p) ==
    /\ worker[p].pc = "evaluate"
    /\ \/ \E n \in 0..MaxRecs, write_ok \in BOOLEAN, k \in 0..MaxRecs :
            /\ write_ok => k = n
            /\ ~write_ok => k < n
            /\ file' = save_data(file, books_of(p, n), write_ok, k)
            /\ worker' = [worker EXCEPT ![p] = after_save(@, n, write_ok)]
       \/ /\ worker' = [worker EXCEPT ![p] = Backoff(worker[p])]
          /\ UNCHANGED file
    /\ UNCHANGED <<semaphore, requested>>
    /\ OtherVarsOfTask

\* asyncio.sleep(2) returns: next iteration of the for loop, or past its
\* end: logger.error("Failed ..."); return [] (50, 82-85)
WakeUp(p) ==
    /\ worker[p].pc = "sleep"
    /\ IF in_range(worker[p].attempt + 1)
       THEN worker' = [worker EXCEPT ![p].attempt = @ + 1, ![p].pc = "goto"]
       ELSE worker' = [worker EXCEPT ![p].logged_failed = TRUE,
                                     ![p].retval = "empty",
                                     ![p].pc = "close"]
    /\ UNCHANGED <<semaphore, file, requested>>
    /\ OtherVarsOfTask

\* page.close() has returned: the page is gone.
page_closed(r) == [r EXCEPT !.page_open = FALSE]

\* finally: await page.close() (87-88), then the `async with` releases the
\* permit.  An exception of close() replaces the pending return value; no
\* close() of the page has returned then, and page_open stays as it is.
PageClose(p) ==
    /\ worker[p].pc = "close"
    /\ \/ worker' = [worker EXCEPT ![p] = page_closed(Finish(@, "returned"))]
       \/ worker' = [worker EXCEPT ![p] = Finish(@, "raised")]
    /\ semaphore' = release(semaphore)
    /\ UNCHANGED <<file, requested>>
    /\ OtherVarsOfTask

\* asyncio.run (124) cancels every task still pending once run() has raised
\* (one loop over all tasks): CancelledError passes `except Exception`, the
\* finally and the `async with`.  run() has left `async with
\* async_playwright()` (102) by then, which ends the browser and its pages.
Cancelled(r) == [Finish(r, "cancelled") EXCEPT !.page_open = FALSE]

CancelAll ==
    /\ runpc = "failed"
    /\ \E p \in Pages : ~Terminal(p)
    /\ worker' = [p \in Pages |->
                     IF Terminal(p) THEN worker[p] ELSE Cancelled(worker[p])]
    /\ semaphore' = semaphore + Cardinality({p \in Pages : Active(p)})
    /\ UNCHANGED <<file, requested>>
    /\ OtherVarsOfTask

Next ==
    \/ Launch
    \/ GetTotalPages
    \/ ClosePageOne
    \/ Spawn
    \/ GatherReturn
    \/ GatherRaise
    \/ BrowserClose
    \/ \E p \in Pages : Acquire(p)
    \/ \E p \in Pages : NewPage(p)
    \/ \E p \in Pages : Goto(p)
    \/ \E p \in Pages : WaitForSelector(p)
    \/ \E p \in Pages : Evaluate(p)
    \/ \E p \in Pages : WakeUp(p)
    \/ \E p \in Pages : PageClose(p)
    \/ CancelAll

Spec == Init /\ [][Next]_vars

\* ---- the script is run a second time (lines 122-124) ---------------------
\* The first process has ended (asyncio.run returned or raised, every task
\* over) and left data rows in the output file; BookScraper(...) is
\* constructed anew (17-27) and run() starts from its beginning.
Restart ==
    /\ invocation = 1
    /\ \/ runpc = "completed"
       \/ runpc = "failed" /\ \A p \in Pages : Terminal(p)
    /\ Len(file) > 1
    /\ invocation' = 2
    /\ semaphore' = max_concurrent
    /\ file' = writeheader(open_w(file))
    /\ runpc' = "launch"
    /\ runError' = "none"
    /\ browser' = "none"
    /\ discOutcome' = "none"
    /\ text' = <<>>
    /\ total_pages' = -1
    /\ worker' = <<>>
    /\ requested' = {}
    /\ UNCHANGED max_concurrent

NextRerun == Next \/ Restart

SpecRerun == Init /\ [][NextRerun]_vars

\* The event loop runs every coroutine that is ready: run() and each task
\* take their next step when it stays possible.
RunStep ==
    \/ Launch \/ GetTotalPages \/ ClosePageOne \/ Spawn
    \/ GatherReturn \/ GatherRaise \/ BrowserClose \/ CancelAll

TaskStep(p) ==
    /\ p \in Pages
    /\ \/ Acquire(p) \/ NewPage(p) \/ Goto(p) \/ WaitForSelector(p)
       \/ Evaluate(p) \/ WakeUp(p) \/ PageClose(p)

FairSpec ==
    Spec /\ WF_vars(RunStep) /\ \A p \in 1..MaxPages : WF_vars(TaskStep(p))

\* ==== properties ==========================================================
ActiveCount == Cardinality({p \in Pages : Active(p)})

\* Number of times row occurs in the output file.
Occurrences(row) == Cardinality({j \in 1..Len(file) : file[j] = row})

\* No row of page p is in the file.
NoRowsOf(p) == \A j \in 1..Len(file) : file[j][1] # p

\* The records 1..n of page p stand in the file in extraction order, next to
\* each other.
BlockInFile(p, n) ==
    \E start \in 1..Len(file) :
        /\ start + n <= Len(file)
        /\ \A i \in 1..n : file[start + i] = <<p, i>>

RECURSIVE SumCnt(_)
SumCnt(n) == IF n = 0 THEN 0 ELSE worker[n].cnt + SumCnt(n - 1)

RECURSIVE SumSavedOk(_)
SumSavedOk(n) ==
    IF n = 0 THEN 0
    ELSE (IF worker[n].saved = "ok" THEN worker[n].cnt ELSE 0) + SumSavedOk(n - 1)

\* C1: with max_concurrent = k >= 1, at most k scrape_page tasks hold a permit
\* (are between acquiring it and their end, backoff sleeps included) in every
\* reachable state.
C1_ConcurrencyCap ==
    /\ max_concurrent >= 1
    /\ ActiveCount <= max_concurrent

\* The cap is reached with one task asleep in backoff and another kept waiting.
C1_Witness ==
    /\ Cardinality(Pages) > max_concurrent
    /\ ActiveCount = max_concurrent
    /\ \E p \in Pages : worker[p].pc = "sleep"
    /\ \E p \in Pages : worker[p].pc = "acquire"

\* C2: the file always has exactly one header row, it is the first row, it is
\* there before any task has started, and no append, retry or write failure
\* adds another.
C2_HeaderOnceFirst ==
    /\ Len(file) >= 1
    /\ file[1] = HeaderRow
    /\ \A j \in 2..Len(file) : file[j] # HeaderRow
    /\ (\A p \in Pages : worker[p].pc = "acquire") => file = <<HeaderRow>>

\* A write has failed half way and another page is being retried.
C2_Witness ==
    \E p, q \in Pages :
        /\ worker[p].saved = "fail"
        /\ worker[q].pc = "goto" /\ worker[q].fails >= 1
        /\ Len(file) >= 2

\* C3: when run() completes and every page 1..N was fetched successfully and
\* every write succeeded, the file is the header followed by exactly the sum
\* of the pages' record counts data rows, each record of each page once.
C3_AllSucceedOutput ==
    ( /\ runpc = "completed"
      /\ Pages # {}
      /\ \A p \in Pages : worker[p].retval = "books" /\ worker[p].saved # "fail" )
    => /\ Len(file) >= 1
       /\ file[1] = HeaderRow
       /\ Len(file) = 1 + SumCnt(total_pages)
       /\ \A p \in Pages : \A i \in 1..worker[p].cnt : Occurrences(<<p, i>>) = 1

\* A completed run of at least two pages, all fetched and written, one of
\* them with the most records.
C3_Witness ==
    /\ runpc = "completed"
    /\ Cardinality(Pages) >= 2
    /\ \A p \in Pages : worker[p].saved = "ok"
    /\ \E p \in Pages : worker[p].cnt = MaxRecs

\* C4: scrape_page never raises: whatever step fails after the permit is
\* acquired, the task ends by returning a list.
C4_NeverRaises == \A p \in Pages : worker[p].pc # "raised"

\* C5: a failure while processing one page neither keeps another page's task
\* from running to its own end nor makes run() end with an error.
C5_FailureIsolation ==
    /\ runError # "worker"
    /\ \A p \in Pages : worker[p].pc # "cancelled"

\* C6: "Scraping completed" is logged only when each of the N spawned tasks
\* has ended (success, not-found or retries exhausted) and every page 1..N
\* has been requested at least once.
C6_CompletionAfterAll ==
    runpc = "completed" =>
        /\ Pages = 1..total_pages
        /\ \A p \in 1..total_pages :
              /\ worker[p].pc = "returned"
              /\ worker[p].retval = "books" \/ worker[p].got404 \/ worker[p].logged_failed
              /\ p \in requested

\* A completed run in which one page was not found and another exhausted its
\* retries.
C6_Witness ==
    /\ runpc = "completed"
    /\ \E p, q \in Pages : worker[p].got404 /\ worker[q].logged_failed

\* C7: whatever the interleaving of the tasks, the file holds the header and
\* the rows of the append calls: the rows of every call that wrote are there
\* once, in one piece, no row belongs to no call, and without a failed write
\* the data rows are exactly the union of the lists.
C7_AppendsAtomic ==
    /\ Len(file) >= 1
    /\ file[1] = HeaderRow
    /\ \A p \in Pages : worker[p].saved = "ok" =>
          /\ BlockInFile(p, worker[p].cnt)
          /\ \A i \in 1..worker[p].cnt : Occurrences(<<p, i>>) = 1
    /\ \A j \in 2..Len(file) :
          /\ Occurrences(file[j]) = 1
          /\ \E p \in Pages :
                /\ worker[p].saved \in {"ok", "fail"}
                /\ file[j][1] = p
                /\ file[j][2] \in 1..worker[p].cnt
    /\ (\A p \in Pages : worker[p].saved # "fail")
          => Len(file) = 1 + SumSavedOk(Cardinality(Pages))

\* Two tasks that held permits at the same time have both appended several
\* rows, the later page first.
C7_Witness ==
    \E p, q \in Pages :
        /\ p < q
        /\ worker[p].pc = "close" /\ worker[p].saved = "ok" /\ worker[p].cnt >= 2
        /\ worker[q].pc = "close" /\ worker[q].saved = "ok" /\ worker[q].cnt >= 2
        /\ file[2] = <<q, 1>>

\* C8: once a request of page p is answered 404 the task stops: it is in its
\* finally block or over, has made no further attempt and slept no further
\* time, has appended nothing and returns []; a 404 on the first attempt
\* leaves the attempt count at 1.
C8_NotFoundStops ==
    \A p \in Pages : worker[p].got404 =>
        /\ worker[p].pc \in {"close", "returned", "raised", "cancelled"}
        /\ worker[p].retval = "empty"
        /\ worker[p].saved = "none"
        /\ NoRowsOf(p)
        /\ ~worker[p].logged_failed
        /\ worker[p].pc = "close" =>
              /\ worker[p].attempts = worker[p].fails + 1
              /\ worker[p].sleeps = worker[p].fails
              /\ worker[p].fails = 0 => worker[p].attempts = 1

\* A 404 on the first attempt.
C8_Witness ==
    \E p \in Pages :
        /\ worker[p].got404
        /\ worker[p].pc = "close"
        /\ worker[p].attempts = 1

\* States of C9: never more than 3 requests of a page; after a success
\* nothing follows and the records are in the file once; after 3 failures
\* the page was requested 3 times, has no row, logs the terminal failure and
\* returns [].
C9_State ==
    \A p \in Pages :
        /\ worker[p].attempts <= 3
        /\ worker[p].fails <= 3
        /\ worker[p].retval = "books" =>
              /\ worker[p].pc \in {"close", "returned", "raised", "cancelled"}
              /\ ~worker[p].logged_failed
              /\ worker[p].saved = "ok" =>
                    \A i \in 1..worker[p].cnt : Occurrences(<<p, i>>) = 1
        /\ worker[p].fails = 3 =>
              /\ worker[p].attempts = 3
              /\ worker[p].pc \in {"sleep", "close"}
              /\ worker[p].pc = "close" =>
                    worker[p].logged_failed /\ worker[p].retval = "empty"
        /\ worker[p].logged_failed =>
              /\ worker[p].retval = "empty"
              /\ worker[p].saved = "none"
              /\ NoRowsOf(p)
              /\ worker[p].pc = "close" => worker[p].fails = 3

\* Steps of C9: the step in which the fetch of page p succeeds comes after
\* m <= 2 failures and m+1 requests, and appends the page's records (none
\* of them in the file before).
C9_Step ==
    \A p \in Pages :
        (worker[p].retval = "none" /\ worker'[p].retval = "books") =>
            /\ worker[p].fails <= 2
            /\ worker[p].attempts = worker[p].fails + 1
            /\ NoRowsOf(p)
            /\ worker'[p].saved = "ok" =>
                  file' = file \o books_of(p, worker'[p].cnt)

\* C9: a page that fails transiently m times (m <= 2) and then succeeds is
\* requested exactly m+1 times and its records are appended exactly once; a
\* page that fails 3 times is requested exactly 3 times, contributes no row,
\* logs a terminal failure and returns []; no page is requested more than 3
\* times and no request follows a success.
C9_RetryPolicy == []C9_State /\ [][C9_Step]_vars

\* One page is about to succeed on its third attempt while another has
\* exhausted its three.
C9_Witness ==
    \E p, q \in Pages :
        /\ worker[p].pc = "evaluate" /\ worker[p].fails = 2
        /\ worker[q].pc = "close" /\ worker[q].logged_failed

\* What discovery is to return for each indicator text, written out by hand.
ExpectedTotal ==
    {<<PageText(1, t), t>> : t \in 0..MaxPages}
    \cup { <<<<"P", "a", "g", "e", " ", "3", " ", "o", "f", " ", "2", "7">>, 27>>,
           <<<<"P", "a", "g", "e", " ", "1", "0", " ", "o", "f", " ", "5", "0">>, 50>>,
           <<<<>>, 50>>,
           <<<<"P", "a", "g", "e", " ", "o", "f", " ", "2">>, 50>>,
           <<<<"p", "a", "g", "e", " ", "1", " ", "o", "f", " ", "2">>, 50>>,
           <<<<"P", "a", "g", "e", " ", "1", " ", "o", "f", " ">>, 50>>,
           <<<<"P", "a", "g", "e", " ", "1", " ", "o", "f", " ", "x">>, 50>>,
           <<<<"P", "a", "g", "e", " ", "1", "o", "f", " ", "2">>, 50>>,
           <<<<"x", "P", "a", "g", "e", " ", "2", " ", "o", "f", " ", "0", "1", "x">>, 1>>,
           <<<<"1", " ", "o", "f", " ", "2">>, 50>> }

C11_PositiveTotal ==
    /\ discOutcome # "none" => total_pages >= 1
    /\ runpc \in {"gather", "browser_close", "completed"} => Pages # {}

\* Number of rows of page p in the output file.
RowsOf(p) == Cardinality({j \in 1..Len(file) : file[j][1] = p})

\* C12: the records of a page are given to save_data at most once, by the
\* task that fetched them; a write that fails is logged and absorbed: the
\* task goes on to return its books, with no second append and no further
\* attempt, the rows of the other pages stay as they were, and run()
\* completes.
C12_WriteFailureAbsorbed ==
    /\ \A p \in Pages :
        /\ worker[p].saved # "none" =>
              /\ worker[p].retval = "books"
              /\ worker[p].pc \in {"close", "returned", "raised", "cancelled"}
        /\ worker[p].saved \in {"none", "noop"} => RowsOf(p) = 0
        /\ worker[p].saved = "fail" => RowsOf(p) < worker[p].cnt
        /\ worker[p].saved = "ok" => RowsOf(p) = worker[p].cnt
        /\ \A i \in 1..MaxRecs : Occurrences(<<p, i>>) <= 1
    /\ runError = "worker" => \E p \in Pages : worker[p].pc = "raised"

\* run() has completed although the write of one page failed half way; the
\* other page's rows are all there.
C12_Witness ==
    /\ runpc = "completed"
    /\ \E p, q \in Pages :
        /\ worker[p].saved = "fail" /\ RowsOf(p) = 1
        /\ worker[p].pc = "returned"
        /\ worker[q].saved = "ok" /\ RowsOf(q) = worker[q].cnt

\* C13: the permit is given back on every way out of scrape_page (return
\* after success, 404 or three failures, an exception, a cancellation): in
\* every reachable state the permits taken are as many as the tasks between
\* acquire and their end, and once every task has ended all max_concurrent
\* permits are free.
C13_PermitsReleased ==
    /\ semaphore >= 0
    /\ max_concurrent - semaphore = ActiveCount
    /\ (\A p \in Pages : Terminal(p)) => semaphore = max_concurrent

\* Every task has ended, one by an exception, one by its return after three
\* failures; all permits are back.
C13_Witness ==
    /\ Pages # {}
    /\ \A p \in Pages : Terminal(p)
    /\ \E p \in Pages : worker[p].pc = "raised"
    /\ \E p \in Pages : worker[p].pc = "returned" /\ worker[p].logged_failed
    /\ semaphore = max_concurrent

\* C14: with max_concurrent >= 1 and every step of a task ending (in
\* success, 404 or an error), under weak fairness every spawned task ends,
\* none waits for a permit for ever, and gather returns so that run() goes
\* on to close the browser and complete, whatever failed on the pages.
C14_RunCompletes ==
    (runpc = "gather") ~>
        ( /\ \A p \in Pages : Terminal(p)
          /\ runpc \in {"browser_close", "completed"} )

\* C15: a second invocation starts again from page 1, discovers N anew and
\* truncates the output at its start: from then on, and when it has
\* completed, the file holds one header row and only rows written by the
\* second invocation, none of the first.
C15_SecondRunTruncates ==
    invocation = 2 =>
        /\ Len(file) >= 1
        /\ file[1] = HeaderRow
        /\ \A j \in 2..Len(file) : file[j] # HeaderRow
        /\ runpc \in {"launch", "get_total_pages"} =>
               total_pages = -1 /\ discOutcome = "none"
        /\ runpc \in {"launch", "get_total_pages", "close_page_one", "spawn"} =>
               file = <<HeaderRow>> /\ worker = <<>> /\ requested = {}
        /\ runpc \in {"gather", "browser_close", "completed"} =>
               Pages = 1..total_pages
        /\ \A p \in 1..MaxPages :
               IF p \in Pages /\ worker[p].saved = "ok"
               THEN RowsOf(p) = worker[p].cnt
               ELSE IF p \in Pages /\ worker[p].saved = "fail"
               THEN RowsOf(p) < worker[p].cnt
               ELSE RowsOf(p) = 0

\* The second invocation has completed with fewer pages than the rows the
\* first one left: only its one row is in the file.
C15_Witness ==
    /\ invocation = 2
    /\ runpc = "completed"
    /\ Pages = {1}
    /\ worker[1].saved = "ok"
    /\ file = <<HeaderRow, <<1, 1>>>>

\* Pages that were opened and that no close() has returned for.
OpenPages == {p \in Pages : worker[p].page_open}

\* C16: every task opens exactly one page of its own after
\* acquiring its permit and that page is closed before the task reaches its
\* end on every path (success, 404, three failures); so at most
\* max_concurrent pages of tasks are open in every reachable state, and none
\* when run() has completed.
C16_PageClosedOnEveryPath ==
    /\ \A p \in Pages :
        /\ worker[p].pc \in {"acquire", "new_page"} => ~worker[p].page_open
        /\ worker[p].pc \in {"returned", "raised", "cancelled"}
                /\ worker[p].retval # "none" => ~worker[p].page_open
    /\ Cardinality(OpenPages) <= max_concurrent
    /\ runpc = "completed" => OpenPages = {}

\* C17: the bootstrap page is closed before any task is spawned, the
\* browser is closed only after every task has ended, and on every way run()
\* ends the browser has been closed.
C17_SharedResourcesReleased ==
    /\ Pages # {} =>
           runpc \notin {"launch", "get_total_pages", "close_page_one", "spawn"}
    /\ browser = "closed" => \A p \in Pages : Terminal(p)
    /\ runpc \in {"completed", "failed"} => browser # "open"

\* C18: a task sleeps only before a next attempt: every backoff sleep is
\* followed by another goto, a page that fails m < 3 times and then succeeds
\* has slept m times, and a page that fails all 3 attempts has slept exactly
\* 2 times.
C18_SleepOnlyBeforeRetry ==
    \A p \in Pages :
        /\ worker[p].pc = "sleep" => in_range(worker[p].attempt + 1)
        /\ worker[p].sleeps =
               IF worker[p].fails < RETRIES THEN worker[p].fails ELSE RETRIES - 1

\* C19: the page numbers tasks are created for are exactly 1..N, N the
\* value get_total_pages returned: no task before the spawn, none for a
\* number outside 1..N, and no url requested for any other number.
C19_PagesAreOneToN ==
    /\ runpc \in {"launch", "get_total_pages", "close_page_one", "spawn"} =>
           Pages = {} /\ requested = {}
    /\ runpc \in {"gather", "browser_close", "completed"} =>
           /\ Pages = 1..total_pages
           /\ Cardinality(Pages) = total_pages
    /\ Pages # {} => \A p \in Pages : 1 <= p /\ p <= total_pages
    /\ requested \subseteq Pages

\* run() has completed with the most pages, each of them requested.
C19_Witness ==
    /\ runpc = "completed"
    /\ total_pages = MaxPages
    /\ Pages = 1..MaxPages
    /\ requested = 1..MaxPages

\* C20: the rows of a page stand in the file in the page's extraction order
\* as one block with no row of another page inside it (a data row is the
\* first record of its page or stands right after the record before it, and
\* no page has two first records); the order of the blocks of different pages
\* is free, any order of completion shows.
C20_BlocksInExtractionOrder ==
    /\ \A j \in 2..Len(file) :
          /\ file[j][1] \in Pages
          /\ file[j][2] \in 1..worker[file[j][1]].cnt
          /\ \/ file[j][2] = 1
             \/ file[j - 1] = <<file[j][1], file[j][2] - 1>>
    /\ \A p \in Pages :
          /\ Occurrences(<<p, 1>>) <= 1
          /\ worker[p].saved = "ok" =>
                \A i \in 1..worker[p].cnt : Occurrences(<<p, i>>) = 1

\* Two pages of two records each were written in full, the later page first.
C20_Witness ==
    /\ runpc = "completed"
    /\ file = <<HeaderRow, <<2, 1>>, <<2, 2>>, <<1, 1>>, <<1, 2>>>>
    /\ worker[1].saved = "ok" /\ worker[2].saved = "ok"

====
